---- MODULE Spec2Model ----
(***************************************************************************)
(* A model of the query-execution core of src/src/search/mod.rs: the       *)
(* Search builder, generate_query_dfas, fetch_words_docids,                *)
(* compute_candidates, facet_ordered and execute.                          *)
(*                                                                         *)
(* The collaborators that live outside src/ (the tokenizer, the FST and    *)
(* its automata, FacetCondition::evaluate, Mdfs and facet_number_recurse)  *)
(* are modelled from their contracts in spec.md sections 4.5, 4.6 and 6.   *)
(***************************************************************************)
EXTENDS Integers, Sequences, FiniteSets, TLC

(* ------------------------------ bounds --------------------------------- *)

\* Documents of the snapshot are 1..MaxDoc.
MaxDoc == 3
\* MDFS proximities are 0..MaxProx.
MaxProx == 1
\* Numeric facet values (the leaves of the facet tree) are 1..MaxVal.
MaxVal == 2
\* Queries hold at most MaxTokens tokens.
MaxTokens == 2

Docs == 1..MaxDoc
Limits == 0..MaxDoc

(* ------------------------------ options -------------------------------- *)

\* Rust's Option<T>: None is the empty set, Some(x) the singleton {x}.
None == {}
Some(x) == {x}
Unwrap(o) == CHOOSE x \in o : TRUE

(* ------------------------ sequences and bitmaps ------------------------ *)

Min(a, b) == IF a < b THEN a ELSE b

Range(s) == {s[i] : i \in 1..Len(s)}

\* Iterator::take(n)
Take(s, n) == SubSeq(s, 1, Min(n, Len(s)))

\* RoaringBitmap::iter: the elements in ascending order.
RECURSIVE BitmapIter(_)
BitmapIter(S) ==
    IF S = {} THEN <<>>
    ELSE LET m == CHOOSE x \in S : \A y \in S : x <= y
         IN  <<m>> \o BitmapIter(S \ {m})

\* Iterator::flatten over a vector of vectors.
RECURSIVE Flatten(_)
Flatten(ss) == IF ss = <<>> THEN <<>> ELSE Head(ss) \o Flatten(Tail(ss))

\* documents.iter().map(RoaringBitmap::len).sum()
RECURSIVE SumLen(_)
SumLen(bs) == IF bs = <<>> THEN 0 ELSE Cardinality(Head(bs)) + SumLen(Tail(bs))

\* ordered_documents.iter().map(Vec::len).sum()
RECURSIVE SumVecLen(_)
SumVecLen(vs) == IF vs = <<>> THEN 0 ELSE Len(Head(vs)) + SumVecLen(Tail(vs))

(* ------------------------------- words --------------------------------- *)

\* A query word is a sequence of one-byte characters.
LowerChar(c) ==
    CASE c = "C" -> "c"
      [] c = "A" -> "a"
      [] c = "T" -> "t"
      [] c = "S" -> "s"
      [] OTHER   -> c

\* str::to_lowercase
ToLowercase(w) == [i \in 1..Len(w) |-> LowerChar(w[i])]

W_a         == <<"a">>
W_cat       == <<"c", "a", "t">>
W_CATS      == <<"C", "A", "T", "S">>
W_hello     == <<"h", "e", "l", "l", "o">>
W_wonderful == <<"w", "o", "n", "d", "e", "r", "f", "u", "l">>

QueryWords == {W_a, W_cat, W_CATS, W_hello, W_wonderful}

\* QueryToken::Free(word) | QueryToken::Quoted(word)
Free(w)   == [kind |-> "Free", word |-> w]
Quoted(w) == [kind |-> "Quoted", word |-> w]
QueryTokens == {Free(w) : w \in QueryWords} \cup {Quoted(w) : w \in QueryWords}

\* The sequences over S of length at most n.
SeqUpTo(S, n) == UNION {[1..k -> S] : k \in 0..n}

\* The surface words of the index FST.
FstWords == {"hallo", "world"}

(* ------------------------------- state --------------------------------- *)

VARIABLES
    \* struct Search
    query, facet_condition, offset, limit,
    \* the read snapshot behind rtxn and index
    fst_matches, word_docids, proximity, facet_value, criteria, faceted_fields,
    \* the position in execute and its locals
    pc, dfas, derived_words, facet_candidates, order_by_facet, candidates,
    mdfs, documents, ordered_documents,
    \* what execute hands back
    outcome, found_words, documents_ids,
    \* history: the page of the last successful execute without a facet
    \* condition, the pulled total at the latest Mdfs::next call, the number
    \* of Mdfs::next calls, the subsets the latest facet_ordered visitor
    \* accumulated, and the ordered total at the latest per-batch call
    prev_page, next_pulled, mdfs_calls, visited, order_collected

search   == <<query, facet_condition, offset, limit>>
snapshot == <<fst_matches, word_docids, proximity, facet_value, criteria, faceted_fields>>
locals   == <<dfas, derived_words, facet_candidates, order_by_facet, candidates,
              mdfs, documents, ordered_documents>>
result   == <<outcome, found_words, documents_ids>>
history  == <<prev_page, next_pulled, mdfs_calls, visited, order_collected>>
vars     == <<search, snapshot, pc, locals, result, history>>

ErrStringCriterion == "Err: criteria facet type must be a number"
ErrUnknownField    == "Err: unknown field id"
ErrStorage         == "Err: storage read"

(* ------------------------ generate_query_dfas -------------------------- *)

\* Faulty variant: only a free token shorter than three bytes is quoted.
QuotedFreeLoose(word) == Len(word) < 3

\* A free token of at most three bytes is treated as quoted.
QuotedFree(word) == Len(word) <= 3

\* The factory picked for a lowercased word: its maximal edit distance.
LevDistance(len, quoted) ==
    IF len <= 4 THEN 0
    ELSE IF len <= 8 THEN (IF quoted THEN 0 ELSE 1)
    ELSE (IF quoted THEN 0 ELSE 2)

\* The automaton a factory builds: build_prefix_dfa or build_dfa.
BuildDfa(lev, is_prefix, word) ==
    [max_distance |-> lev, prefix |-> is_prefix, word |-> word]

QueryDfa(q, i) ==
    LET token     == q.tokens[i]
        word      == ToLowercase(token.word)
        quoted    == IF token.kind = "Free" THEN QuotedFree(token.word) ELSE TRUE
        is_last   == i = Len(q.tokens)
        is_prefix == is_last /\ ~q.ends_with_whitespace /\ ~quoted
        lev       == LevDistance(Len(word), quoted)
    IN  [word |-> word, is_prefix |-> is_prefix, dfa |-> BuildDfa(lev, is_prefix, word)]

GenerateQueryDfas(q) == [i \in 1..Len(q.tokens) |-> QueryDfa(q, i)]

(* ------------------------- fetch_words_docids -------------------------- *)

\* fst.search_with_state(&dfa): the FST words the i-th automaton accepts.
FstSearch(i) == fst_matches[i]

\* One iteration of the loop over the automata: the map and the union.
DerivedEntry(stream) ==
    [words |-> [w \in stream |-> Unwrap(word_docids[w])],
     union |-> UNION {Unwrap(word_docids[w]) : w \in stream}]

(* ------------------------- compute_candidates -------------------------- *)

\* sort_unstable_by_key(|(_, docids)| docids.len()): every order of the
\* entries that is ascending in cardinality; ties fall either way.
SortedOrders(dw) ==
    {p \in Permutations(1..Len(dw)) :
        \A i, j \in 1..Len(dw) :
            i < j => Cardinality(dw[p[i]].union) <= Cardinality(dw[p[j]].union)}

\* Faulty variant: union_with in place of intersect_with.
RECURSIVE IntersectFromUnion(_, _, _, _)
IntersectFromUnion(dw, p, i, acc) ==
    IF i > Len(dw) THEN acc
    ELSE IntersectFromUnion(dw, p, i + 1,
            IF i = 1 THEN dw[p[i]].union ELSE acc \cup dw[p[i]].union)

\* The loop over the sorted entries: clone the first, intersect the rest.
RECURSIVE IntersectFrom(_, _, _, _)
IntersectFrom(dw, p, i, acc) ==
    IF i > Len(dw) THEN acc
    ELSE IntersectFrom(dw, p, i + 1,
            IF i = 1 THEN dw[p[i]].union ELSE acc \cap dw[p[i]].union)

ComputeCandidates(dw, p) == IntersectFrom(dw, p, 1, {})

(* -------------------------------- Mdfs --------------------------------- *)

\* Mdfs::next: the remaining candidates of the lowest proximity, or None.
MdfsNext(remaining) ==
    IF remaining = {} THEN None
    ELSE LET p == CHOOSE x \in 0..MaxProx :
                    /\ \E d \in remaining : proximity[d] = x
                    /\ \A d \in remaining : proximity[d] >= x
         IN  Some([proximity |-> p,
                   answer    |-> {d \in remaining : proximity[d] = p}])

(* ---------------------------- facet_ordered ---------------------------- *)

LeafValue(order, i) == IF order = "Asc" THEN i ELSE MaxVal + 1 - i

\* facet_number_recurse: the non-empty intersections of the leaves with
\* documents_ids, in the direction's order, as handed to the visitor.
FacetNumberRecurse(order, docids) ==
    SelectSeq([i \in 1..MaxVal |->
                  {d \in docids : facet_value[d] = Some(LeafValue(order, i))}],
              LAMBDA leaf : leaf # {})

\* The visitor closure: push, then continue while the total is below limit.
RECURSIVE Visitor(_, _, _)
Visitor(output, leaves, limit_) ==
    IF leaves = <<>> THEN output
    ELSE LET pushed == Append(output, Head(leaves))
         IN  IF SumLen(pushed) < limit_
             THEN Visitor(pushed, Tail(leaves), limit_)
             ELSE pushed

\* Faulty variant: the subsets merged into one bitmap before iterating.
FlattenOutputById(output, limit_) ==
    Take(BitmapIter(UNION Range(output)), limit_)

\* output.into_iter().flatten().take(limit).collect()
FlattenOutput(output, limit_) ==
    Take(Flatten([i \in 1..Len(output) |-> BitmapIter(output[i])]), limit_)

FacetOrdered(ftype, order, docids, limit_) ==
    IF ftype = "String"
    THEN [err |-> TRUE, output |-> <<>>, ids |-> <<>>]
    ELSE LET output == Visitor(<<>>, FacetNumberRecurse(order, docids), limit_)
         IN  [err |-> FALSE, output |-> output, ids |-> FlattenOutput(output, limit_)]

(* ------------------------------- execute ------------------------------- *)

\* The locals of execute are dropped when it ends without a result.
\* A `?` on a read of the store: words_fst, word_docids.get, evaluate,
\* criteria, faceted_fields, documents_ids, Mdfs::next, facet_number_recurse.
Dropped ==
    /\ dfas' = <<>>
    /\ derived_words' = None
    /\ facet_candidates' = None
    /\ order_by_facet' = None
    /\ candidates' = None
    /\ mdfs' = {}
    /\ documents' = <<>>
    /\ ordered_documents' = <<>>
    /\ next_pulled' = None
    /\ mdfs_calls' = 0
    /\ visited' = <<>>
    /\ order_collected' = None

Fail(err) ==
    /\ pc' = "done"
    /\ outcome' = err
    /\ Dropped
    /\ UNCHANGED <<found_words, documents_ids, prev_page>>

\* Ok(SearchResult { found_words, documents_ids })
Return(words, ids) ==
    /\ pc' = "done"
    /\ outcome' = "Ok"
    /\ found_words' = words
    /\ documents_ids' = ids
    /\ prev_page' = IF facet_condition = None THEN Some(ids) ELSE prev_page

\* Search::facet_condition, called on the builder after an execute returned
\* (a caller goes on with the same snapshot when its reads succeeded).
FacetCondition(condition) ==
    /\ pc = "done"
    /\ outcome \notin {"Panic", ErrStorage}
    /\ facet_condition' = Some(condition)
    /\ pc' = "idle"
    /\ Dropped
    /\ outcome' = "None"
    /\ found_words' = {}
    /\ documents_ids' = <<>>
    /\ UNCHANGED <<query, offset, limit, snapshot, prev_page>>

\* execute, up to the match on the generated automata.
Begin ==
    /\ pc = "idle"
    /\ LET generated == IF query = None THEN <<>>
                        ELSE GenerateQueryDfas(Unwrap(query))
       IN  /\ dfas' = generated
           /\ derived_words' = IF generated # <<>> THEN Some(<<>>) ELSE None
           /\ pc' = IF generated # <<>> THEN "fetch" ELSE "prepare"
    /\ UNCHANGED <<search, snapshot, facet_candidates, order_by_facet, candidates,
                   mdfs, documents, ordered_documents, result, history>>

\* fetch_words_docids: the loop body for the next automaton.
FetchWords ==
    /\ pc = "fetch"
    /\ LET fetched == Unwrap(derived_words)
           stream  == FstSearch(Len(fetched) + 1)
       IN  /\ \A w \in stream : word_docids[w] # None
           /\ derived_words' = Some(Append(fetched, DerivedEntry(stream)))
           /\ pc' = IF Len(fetched) + 1 = Len(dfas) THEN "prepare" ELSE "fetch"
    /\ UNCHANGED <<search, snapshot, dfas, facet_candidates, order_by_facet,
                   candidates, mdfs, documents, ordered_documents, result, history>>

\* fetch_words_docids: word_docids.get(..)?.unwrap() on a word without postings.
FetchPanic ==
    /\ pc = "fetch"
    /\ \E w \in FstSearch(Len(Unwrap(derived_words)) + 1) : word_docids[w] = None
    /\ Fail("Panic")
    /\ UNCHANGED <<search, snapshot>>

\* The first directional criterion of the index's criterion list.
RECURSIVE FirstDirectional(_)
FirstDirectional(cs) ==
    IF cs = <<>> THEN None
    ELSE IF Head(cs).kind \in {"Asc", "Desc"}
         THEN Some([fid |-> Head(cs).fid, order |-> Head(cs).kind])
         ELSE FirstDirectional(Tail(cs))

\* FacetCondition::evaluate: the bitmap the condition stands for.
Evaluate(condition) == condition

\* execute: facet_candidates and order_by_facet.
Prepare ==
    /\ pc = "prepare"
    /\ LET first == FirstDirectional(criteria)
       IN  IF first # None /\ Unwrap(first).fid \notin DOMAIN faceted_fields
           THEN Fail(ErrUnknownField)
           ELSE /\ facet_candidates' = IF facet_condition = None THEN None
                                       ELSE Some(Evaluate(Unwrap(facet_condition)))
                /\ order_by_facet' =
                      IF first = None THEN None
                      ELSE Some([fid   |-> Unwrap(first).fid,
                                 ftype |-> faceted_fields[Unwrap(first).fid],
                                 order |-> Unwrap(first).order])
                /\ pc' = "dispatch"
                /\ UNCHANGED <<dfas, derived_words, candidates, mdfs, documents,
                               ordered_documents, result, history>>
    /\ UNCHANGED <<search, snapshot>>

\* The placeholder page of a bitmap: facet-ordered, or its first limit ids.
Placeholder(docids) ==
    IF order_by_facet = None
    THEN /\ Return({}, Take(BitmapIter(docids), limit))
         /\ UNCHANGED <<locals, next_pulled, mdfs_calls, visited, order_collected>>
    ELSE LET o == Unwrap(order_by_facet)
             r == FacetOrdered(o.ftype, o.order, docids, limit)
         IN  IF r.err
             THEN Fail(ErrStringCriterion)
             ELSE /\ Return({}, r.ids)
                  /\ visited' = r.output
                  /\ UNCHANGED <<locals, next_pulled, mdfs_calls, order_collected>>

\* (Some(facet_candidates), None)
PlaceholderFacet ==
    /\ pc = "dispatch"
    /\ facet_candidates # None
    /\ derived_words = None
    /\ Placeholder(Unwrap(facet_candidates))
    /\ UNCHANGED <<search, snapshot>>

\* (None, None)
PlaceholderAll ==
    /\ pc = "dispatch"
    /\ facet_candidates = None
    /\ derived_words = None
    /\ Placeholder(Docs)
    /\ UNCHANGED <<search, snapshot>>

\* Where execute stands once the pull loop is over.
AfterPull(pulled) ==
    IF order_by_facet = None THEN "collect"
    ELSE IF pulled = <<>> THEN "collect" ELSE "order"

\* Faulty variant: the loop goes on while the total is at most limit.
PullMoreLoose(pulled, limit_) == SumLen(pulled) <= limit_

\* The pull loop's condition.
PullMore(pulled, limit_) == SumLen(pulled) < limit_

\* Mdfs::new and the first test of the pull loop's condition.
StartMdfs(found) ==
    /\ candidates' = Some(found)
    /\ mdfs' = found
    /\ pc' = IF PullMore(<<>>, limit) THEN "pull" ELSE AfterPull(<<>>)
    /\ UNCHANGED <<search, snapshot, dfas, derived_words, facet_candidates,
                   order_by_facet, documents, ordered_documents, result, history>>

\* Faulty variant: the facet bitmap left out of the candidates.
IgnoreFacet(facet, words) == words

\* facet_candidates.intersect_with(&words_candidates)
IntersectWith(facet, words) == facet \cap words

\* (Some(facet_candidates), Some(derived_words))
WordsAndFacet ==
    /\ pc = "dispatch"
    /\ facet_candidates # None
    /\ derived_words # None
    /\ \E p \in SortedOrders(Unwrap(derived_words)) :
          StartMdfs(IntersectWith(Unwrap(facet_candidates),
                                  ComputeCandidates(Unwrap(derived_words), p)))

\* (None, Some(derived_words))
WordsOnly ==
    /\ pc = "dispatch"
    /\ facet_candidates = None
    /\ derived_words # None
    /\ \E p \in SortedOrders(Unwrap(derived_words)) :
          StartMdfs(ComputeCandidates(Unwrap(derived_words), p))

\* One turn of the pull loop: mdfs.next(), then push or break.
PullNext ==
    /\ pc = "pull"
    /\ next_pulled' = Some(SumLen(documents))
    /\ mdfs_calls' = mdfs_calls + 1
    /\ LET next == MdfsNext(mdfs)
       IN  IF next = None
           THEN /\ pc' = AfterPull(documents)
                /\ UNCHANGED <<mdfs, documents>>
           ELSE LET pulled == Append(documents, Unwrap(next).answer)
                IN  /\ documents' = pulled
                    /\ mdfs' = mdfs \ Unwrap(next).answer
                    /\ pc' = IF PullMore(pulled, limit) THEN "pull" ELSE AfterPull(pulled)
    /\ UNCHANGED <<search, snapshot, dfas, derived_words, facet_candidates,
                   order_by_facet, candidates, ordered_documents, result,
                   prev_page, visited, order_collected>>

\* derived_words.into_iter().flat_map(|(w, _)| w).map(|(w, _)| w).collect()
FoundWords == UNION {DOMAIN Unwrap(derived_words)[i].words :
                        i \in 1..Len(Unwrap(derived_words))}

\* The break of the loop over the pulled batches.
OrderedEnough(ordered, limit_) == SumVecLen(ordered) >= limit_

\* One turn of the loop over the pulled batches: facet_ordered, push, break.
OrderBatch ==
    /\ pc = "order"
    /\ LET o == Unwrap(order_by_facet)
           r == FacetOrdered(o.ftype, o.order,
                             documents[Len(ordered_documents) + 1], limit)
           ordered == Append(ordered_documents, r.ids)
       IN  IF r.err
           THEN Fail(ErrStringCriterion)
           ELSE /\ visited' = r.output
                /\ order_collected' = Some(SumVecLen(ordered_documents))
                /\ ordered_documents' = ordered
                /\ pc' = IF OrderedEnough(ordered, limit) \/ Len(ordered) = Len(documents)
                         THEN "collect" ELSE "order"
                /\ UNCHANGED <<dfas, derived_words, facet_candidates, order_by_facet,
                               candidates, mdfs, documents, next_pulled, mdfs_calls,
                               result, prev_page>>
    /\ UNCHANGED <<search, snapshot>>

\* Faulty variant: the pulled bitmaps flattened without take(limit).
PageOfBatchesNoTake(batches, limit_) ==
    Flatten([i \in 1..Len(batches) |-> BitmapIter(batches[i])])

\* Faulty variant: the pulled bitmaps merged into one before iterating.
PageOfBatchesById(batches, limit_) ==
    Take(BitmapIter(UNION Range(batches)), limit_)

\* into_iter().flatten().take(limit).collect() over the pulled bitmaps.
PageOfBatches(batches, limit_) ==
    Take(Flatten([i \in 1..Len(batches) |-> BitmapIter(batches[i])]), limit_)

\* into_iter().flatten().take(limit).collect() over the ordered batches.
PageOfOrdered(ordered, limit_) == Take(Flatten(ordered), limit_)

\* The end of execute: found_words, documents_ids and Ok(..).
Collect ==
    /\ pc = "collect"
    /\ IF order_by_facet = None
       THEN Return(FoundWords, PageOfBatches(documents, limit))
       ELSE Return(FoundWords, PageOfOrdered(ordered_documents, limit))
    /\ UNCHANGED <<search, snapshot, locals, next_pulled, mdfs_calls, visited,
                   order_collected>>

\* Where execute is about to read the store through a `?`.
ReadsStore ==
    \/ pc \in {"idle", "fetch", "prepare", "pull", "order"}
    \/ /\ pc = "dispatch"
       /\ derived_words = None
       /\ facet_candidates = None \/ order_by_facet # None

\* A failed read of the store ends execute with its error.
StorageError ==
    /\ ReadsStore
    /\ Fail(ErrStorage)
    /\ UNCHANGED <<search, snapshot>>

Next ==
    \/ \E condition \in SUBSET Docs : FacetCondition(condition)
    \/ Begin
    \/ FetchWords
    \/ FetchPanic
    \/ Prepare
    \/ PlaceholderFacet
    \/ PlaceholderAll
    \/ WordsAndFacet
    \/ WordsOnly
    \/ PullNext
    \/ OrderBatch
    \/ Collect
    \/ StorageError

(* -------------------------------- inputs ------------------------------- *)

Other     == [kind |-> "Other", fid |-> 0]
Asc(fid)  == [kind |-> "Asc", fid |-> fid]
Desc(fid) == [kind |-> "Desc", fid |-> fid]

\* The facet registry: field `fid` of type `ftype` (or not faceted at all),
\* the other field a string facet.
Registry(fid, ftype) ==
    IF ftype = "Absent"
    THEN [g \in {1, 2} \ {fid} |-> "String"]
    ELSE [g \in {1, 2} |-> IF g = fid THEN ftype ELSE "String"]

\* Criterion lists with their registries: no directional criterion; an
\* ascending one behind a non-directional one; a descending one first.
NoOrdering == [criteria |-> <<Other>>, faceted_fields |-> Registry(1, "String")]
AscBy(ftype)  == [criteria |-> <<Other, Asc(1)>>, faceted_fields |-> Registry(1, ftype)]
DescBy(ftype) == [criteria |-> <<Desc(2), Asc(1)>>, faceted_fields |-> Registry(2, ftype)]

NumericOrderings == {AscBy("Float"), DescBy("Integer")}
BrokenOrderings  == {AscBy("String"), DescBy("String"), AscBy("Absent"), DescBy("Absent")}

Bitmaps == SUBSET Docs
FacetValues == {None} \cup {Some(v) : v \in 1..MaxVal}

QueryOf(tokens, ws) == Some([tokens |-> tokens, ends_with_whitespace |-> ws])

\* The state right after Search::new(..).query(..).limit(..), before execute.
Fresh ==
    /\ facet_condition = None
    /\ offset = 0
    /\ pc = "idle"
    /\ dfas = <<>>
    /\ derived_words = None
    /\ facet_candidates = None
    /\ order_by_facet = None
    /\ candidates = None
    /\ mdfs = {}
    /\ documents = <<>>
    /\ ordered_documents = <<>>
    /\ outcome = "None"
    /\ found_words = {}
    /\ documents_ids = <<>>
    /\ prev_page = None
    /\ next_pulled = None
    /\ mdfs_calls = 0
    /\ visited = <<>>
    /\ order_collected = None

\* Snapshots that vary the proximities and the facet values: at most one
\* query word, matching one FST word. What a run never reads is held fixed:
\* the proximity of a document outside every posting list, and the facet
\* tree when no numeric ordering is declared.
InitFacets ==
    /\ query \in {None, QueryOf(<<>>, TRUE), QueryOf(<<Free(W_hello)>>, FALSE)}
    /\ limit \in Limits
    /\ \E c \in {NoOrdering} \cup NumericOrderings \cup BrokenOrderings :
          /\ criteria = c.criteria
          /\ faceted_fields = c.faceted_fields
          /\ facet_value \in [Docs -> FacetValues]
          /\ c \notin NumericOrderings => \A d \in Docs : facet_value[d] = None
    /\ LET words == query # None /\ Unwrap(query).tokens # <<>>
       IN  /\ fst_matches = [i \in 1..MaxTokens |->
                                IF words /\ i = 1 THEN {"hallo"} ELSE {}]
           /\ word_docids \in [FstWords -> {None} \cup {Some(b) : b \in Bitmaps}]
           /\ word_docids["world"] = Some({})
           /\ ~words => word_docids["hallo"] = Some({})
           /\ proximity \in [Docs -> 0..MaxProx]
           /\ \A d \in Docs :
                 d \notin UNION word_docids["hallo"] => proximity[d] = 0
           /\ word_docids["hallo"] = None => \A d \in Docs : facet_value[d] = None
    /\ Fresh

\* Snapshots that vary the derived words: up to MaxTokens query words, each
\* matching any set of FST words, each FST word with any posting list or
\* none. Proximities and facet values are one fixed assignment.
InitWords ==
    /\ \E n \in 1..MaxTokens : query = QueryOf([i \in 1..n |-> Free(W_hello)], FALSE)
    /\ limit = MaxDoc
    /\ \E c \in {NoOrdering, AscBy("Float")} :
          /\ criteria = c.criteria
          /\ faceted_fields = c.faceted_fields
    /\ fst_matches \in [1..MaxTokens -> SUBSET FstWords]
    /\ \A i \in 1..MaxTokens : i > Len(Unwrap(query).tokens) => fst_matches[i] = {}
    /\ word_docids \in [FstWords -> {None} \cup {Some(b) : b \in Bitmaps}]
    /\ \A w \in FstWords :
          (\A i \in 1..MaxTokens : w \notin fst_matches[i]) => word_docids[w] = Some({})
    /\ proximity = [d \in Docs |-> d % (MaxProx + 1)]
    /\ facet_value = [d \in Docs |-> Some((d % MaxVal) + 1)]
    /\ Fresh

\* Snapshots that vary the query: every token list over QueryTokens, with
\* and without trailing whitespace, each token matching the word "hallo".
InitQueries ==
    /\ \E tokens \in SeqUpTo(QueryTokens, MaxTokens), ws \in BOOLEAN :
          query = QueryOf(tokens, ws)
    /\ limit = MaxDoc
    /\ criteria = NoOrdering.criteria
    /\ faceted_fields = NoOrdering.faceted_fields
    /\ fst_matches = [i \in 1..MaxTokens |-> {"hallo"}]
    /\ word_docids = [w \in FstWords |-> IF w = "hallo" THEN Some(Docs) ELSE Some({})]
    /\ proximity = [d \in Docs |-> d % (MaxProx + 1)]
    /\ facet_value = [d \in Docs |-> None]
    /\ Fresh

Init == InitFacets \/ InitWords \/ InitQueries

Spec == Init /\ [][Next]_vars

\* execute runs to its end once called: a turn of the pull loop that can be
\* taken is taken.
SpecLive == Spec /\ WF_vars(PullNext)

(* ------------------------ what the claims speak of --------------------- *)

HasWords == query # None /\ Unwrap(query).tokens # <<>>
NumWords == IF query = None THEN 0 ELSE Len(Unwrap(query).tokens)

\* The union of the posting lists of the FST words the i-th token matches.
WordUnion(i) == UNION {UNION word_docids[w] : w \in fst_matches[i]}

\* The documents that hold every query word (all of them without words).
Matched ==
    IF HasWords THEN {d \in Docs : \A i \in 1..NumWords : d \in WordUnion(i)}
    ELSE Docs

\* ... restricted to the facet bitmap when a facet condition is set.
Filtered ==
    IF facet_condition = None THEN Matched
    ELSE Matched \cap Evaluate(Unwrap(facet_condition))

Ordering == FirstDirectional(criteria) # None
Direction == Unwrap(FirstDirectional(criteria)).order
OrderingField == Unwrap(FirstDirectional(criteria)).fid

HasValue(d) == facet_value[d] # None
ValueOf(d) == Unwrap(facet_value[d])
InDirection(a, b) == IF Direction = "Asc" THEN a <= b ELSE a >= b

\* ... restricted to the documents with a value when an ordering is active.
Available ==
    IF Ordering THEN {d \in Filtered : HasValue(d)} ELSE Filtered

Returned == pc = "done" /\ outcome = "Ok"
Page == documents_ids
PagePairs == {ij \in (1..Len(Page)) \X (1..Len(Page)) : ij[1] < ij[2]}

(* -------------------------------- claims ------------------------------- *)

\* C1: whenever execute succeeds, the page has exactly min(limit, |available|)
\* elements, where available is the matched (and facet-filtered) documents,
\* restricted to those with a facet value when an ordering criterion is
\* active.
C1_PageLength ==
    Returned => Len(Page) = Min(limit, Cardinality(Available))

\* C2: whenever execute succeeds, in every branch, the page has at most
\* limit elements and no document id occurs twice.
C2_BoundedDistinct ==
    Returned =>
        /\ Len(Page) <= limit
        /\ \A ij \in PagePairs : Page[ij[1]] # Page[ij[2]]

\* C2 witness: a full page of at least two documents, with words, a facet
\* condition and a numeric ordering, collected from several MDFS batches
\* while more documents were available.
C2_Witness ==
    /\ Returned
    /\ HasWords
    /\ facet_condition # None
    /\ order_by_facet # None
    /\ Len(documents) >= 2
    /\ limit >= 2
    /\ Len(Page) = limit
    /\ Cardinality(Available) > limit

\* C3 (as stated): every document returned with a facet condition is in the
\* page returned for the same query and limit without one, and in the facet
\* bitmap.
C3_FacetComposition ==
    (Returned /\ facet_condition # None /\ prev_page # None) =>
        Range(Page) \subseteq
            Range(Unwrap(prev_page)) \cap Evaluate(Unwrap(facet_condition))

\* C3 (amended): every document returned with a facet condition is in the
\* facet bitmap and among the documents the query matches without one; it is
\* in the page returned without a facet condition whenever that page is not
\* cut by limit.
C3_FacetCompositionAmended ==
    (Returned /\ facet_condition # None /\ prev_page # None) =>
        /\ Range(Page) \subseteq Matched \cap Evaluate(Unwrap(facet_condition))
        /\ Cardinality(Matched) <= limit =>
              Range(Page) \subseteq Range(Unwrap(prev_page))

\* C3 witness: a page with a facet condition and query words that holds a
\* document the page without the facet condition does not.
C3_Witness ==
    /\ Returned
    /\ HasWords
    /\ facet_condition # None
    /\ prev_page # None
    /\ Page # <<>>
    /\ ~(Range(Page) \subseteq Range(Unwrap(prev_page)))

\* C4 (as stated): with an ordering criterion, in every branch, the page is
\* in the direction's order of the facet value over the whole page, and no
\* returned document lacks a value.
C4_OrderedPage ==
    (Returned /\ Ordering) =>
        /\ \A i \in 1..Len(Page) : HasValue(Page[i])
        /\ \A ij \in PagePairs :
              InDirection(ValueOf(Page[ij[1]]), ValueOf(Page[ij[2]]))

\* C4 (amended): with an ordering criterion no returned document lacks a
\* value; in the placeholder branches the page is in the direction's order
\* of the facet value; in the branches with query words it is in that order
\* within each MDFS batch, the batches following each other by proximity.
C4_OrderedWithinBatches ==
    (Returned /\ Ordering) =>
        /\ \A i \in 1..Len(Page) : HasValue(Page[i])
        /\ \A ij \in PagePairs :
              LET a == Page[ij[1]]
                  b == Page[ij[2]]
              IN  IF HasWords
                  THEN \/ proximity[a] < proximity[b]
                       \/ /\ proximity[a] = proximity[b]
                          /\ InDirection(ValueOf(a), ValueOf(b))
                  ELSE InDirection(ValueOf(a), ValueOf(b))

\* C4 witness: an ordered page with query words where two documents of one
\* batch carry different values and a later batch brings a value that
\* belongs before one already placed.
C4_Witness ==
    /\ Returned
    /\ Ordering
    /\ HasWords
    /\ \E ij \in PagePairs :
          /\ proximity[Page[ij[1]]] = proximity[Page[ij[2]]]
          /\ ValueOf(Page[ij[1]]) # ValueOf(Page[ij[2]])
    /\ \E ij \in PagePairs :
          /\ proximity[Page[ij[1]]] < proximity[Page[ij[2]]]
          /\ ~InDirection(ValueOf(Page[ij[1]]), ValueOf(Page[ij[2]]))

\* The documents of `docs` by proximity level, each level in ascending id.
RECURSIVE ByProximity(_, _)
ByProximity(docs, p) ==
    IF p > MaxProx THEN <<>>
    ELSE BitmapIter({d \in docs : proximity[d] = p}) \o ByProximity(docs, p + 1)

\* C5: with query words and no ordering criterion the page is the pulled
\* batches one after another, each in ascending id, cut at limit: proximity
\* never decreases along the page and ids ascend within a batch.
C5_ProximityThenId ==
    (Returned /\ HasWords /\ ~Ordering) =>
        /\ Page = Take(ByProximity(Filtered, 0), limit)
        /\ \A ij \in PagePairs :
              \/ proximity[Page[ij[1]]] < proximity[Page[ij[2]]]
              \/ /\ proximity[Page[ij[1]]] = proximity[Page[ij[2]]]
                 /\ Page[ij[1]] < Page[ij[2]]

\* C5 witness: an unordered page from two batches, one of them with two
\* documents, whose ids do not ascend over the whole page.
C5_Witness ==
    /\ Returned
    /\ HasWords
    /\ ~Ordering
    /\ Len(documents) >= 2
    /\ \E ij \in PagePairs : proximity[Page[ij[1]]] = proximity[Page[ij[2]]]
    /\ \E ij \in PagePairs : Page[ij[1]] > Page[ij[2]]

StringCriterion ==
    /\ Ordering
    /\ OrderingField \in DOMAIN faceted_fields
    /\ faceted_fields[OrderingField] = "String"

\* C6: whenever the first directional criterion is on a string facet,
\* execute ends with the error "criteria facet type must be a number",
\* whatever the query, the facet condition and the limit (a run cut short by
\* a failed read or a panic set aside).
C6_StringCriterionRejected ==
    (pc = "done" /\ StringCriterion /\ outcome \notin {ErrStorage, "Panic"}) =>
        outcome = ErrStringCriterion

MissingPostings ==
    \E i \in 1..NumWords : \E w \in fst_matches[i] : word_docids[w] = None

\* C7: when the FST yields a word the postings map does not hold, execute
\* ends with an error value, not with a panic and not with a result.
C7_MissingPostingsIsError ==
    (pc = "done" /\ MissingPostings) =>
        outcome \in {ErrStorage, ErrUnknownField, ErrStringCriterion}

QuotedACat == [tokens |-> <<Quoted(W_a), Free(W_cat)>>, ends_with_whitespace |-> FALSE]

\* C8 (as stated): for the query '"a" cat' the automata are a distance-0
\* whole-word one for "a" and a prefix one for "cat"; the last free token of
\* a query that does not end in whitespace gets a prefix automaton.
C8_LastFreeIsPrefix ==
    dfas # <<>> =>
        LET q == Unwrap(query)
            n == Len(q.tokens)
        IN  /\ (q.tokens[n].kind = "Free" /\ ~q.ends_with_whitespace) =>
                  (dfas[n].is_prefix /\ dfas[n].dfa.prefix)
            /\ q = QuotedACat =>
                  /\ dfas[1].dfa = [max_distance |-> 0, prefix |-> FALSE, word |-> W_a]
                  /\ dfas[2].is_prefix

\* C8 (amended): for the query '"a" cat' both automata are distance-0
\* whole-word ones; the last free token of a query that does not end in
\* whitespace gets a prefix automaton exactly when it is longer than three
\* bytes, and no other token gets one.
C8_LastLongFreeIsPrefix ==
    dfas # <<>> =>
        LET q == Unwrap(query)
            n == Len(q.tokens)
        IN  /\ Len(dfas) = n
            /\ \A i \in 1..n :
                  /\ dfas[i].dfa.prefix = dfas[i].is_prefix
                  /\ dfas[i].is_prefix =
                        /\ i = n
                        /\ ~q.ends_with_whitespace
                        /\ q.tokens[i].kind = "Free"
                        /\ Len(q.tokens[i].word) > 3
            /\ q = QuotedACat =>
                  /\ dfas[1] = [word |-> W_a, is_prefix |-> FALSE,
                                dfa |-> [max_distance |-> 0, prefix |-> FALSE, word |-> W_a]]
                  /\ dfas[2] = [word |-> W_cat, is_prefix |-> FALSE,
                                dfa |-> [max_distance |-> 0, prefix |-> FALSE, word |-> W_cat]]

\* C8 witness: the automata generated for the query '"a" cat'.
C8_Witness ==
    /\ dfas # <<>>
    /\ query = Some(QuotedACat)

\* C9: the candidate set handed to MDFS is exactly the intersection of the
\* per-word unions, whatever order the popularity sort leaves the entries
\* in, intersected with the facet bitmap when there is one; of no entries
\* compute_candidates makes the empty set.
C9_CandidatesAreIntersection ==
    /\ candidates # None => Unwrap(candidates) = Filtered
    /\ ComputeCandidates(<<>>, <<>>) = {}

\* C9 witness: two words whose unions differ but tie in cardinality, under
\* a facet condition, leaving a non-empty candidate set smaller than each
\* union and than the facet bitmap.
C9_Witness ==
    /\ candidates # None
    /\ facet_condition # None
    /\ NumWords = 2
    /\ WordUnion(1) # WordUnion(2)
    /\ Cardinality(WordUnion(1)) = Cardinality(WordUnion(2))
    /\ Unwrap(candidates) # {}
    /\ Unwrap(candidates) \notin {WordUnion(1), WordUnion(2), Unwrap(facet_condition)}

\* The safety half of early termination: Mdfs::next is never called once
\* the pulled total has reached limit and the pull loop ends when next
\* returns None, so it makes at most min(limit, |candidates| + 1) calls; the
\* facet_ordered visitor stops as soon as its subsets reach limit; no batch
\* is facet-ordered once the ordered documents reach limit.
EarlyTermination ==
    /\ next_pulled # None => Unwrap(next_pulled) < limit
    /\ mdfs_calls <= limit
    /\ candidates # None => mdfs_calls <= Cardinality(Unwrap(candidates)) + 1
    /\ (pc = "pull" /\ next_pulled # None) =>
          (SumLen(documents) > Unwrap(next_pulled) /\ SumLen(documents) < limit)
    /\ \A k \in 1..(Len(visited) - 1) : SumLen(SubSeq(visited, 1, k)) < limit
    /\ order_collected # None => Unwrap(order_collected) < limit

\* C10: early termination holds in every state (no Mdfs::next call, visitor
\* step or per-batch ordering once limit is reached) and the pull loop
\* always terminates.
C10_EarlyTermination ==
    /\ []EarlyTermination
    /\ (pc = "pull") ~> (pc # "pull")

\* C10 witness: a page returned after at least one pull with candidates
\* left in MDFS, the last batch facet-ordered with the visitor stopped
\* before the last leaf.
C10_Witness ==
    /\ Returned
    /\ mdfs_calls >= 1
    /\ mdfs # {}
    /\ order_collected # None
    /\ visited # <<>>
    /\ UNION Range(visited) # documents[Len(ordered_documents)]
    /\ \E d \in documents[Len(ordered_documents)] : HasValue(d) /\ d \notin UNION Range(visited)

====
